---------------------------- MODULE Spec2Model ----------------------------
(***************************************************************************)
(* A model of the fake HLML library (hack/fake_libhlml/fake_libhlml.c and  *)
(* pkg/fakehlml/fake_hlml.h): the device registry main_struct, the         *)
(* error-injection table and event queue flow_control, the heap-allocated  *)
(* event sets, the test control plane (add_device, reset, set_error,       *)
(* add_critical_event, reset_events) and the hlml_* entry points.          *)
(*                                                                         *)
(* Conventions.                                                            *)
(*  - A C string is a TLA+ string; NULL is the null char pointer.          *)
(*  - A device handle is 0 (NULL) or n in 1..DEVICES_MAX, the address of   *)
(*    main_struct.devices_info[n-1].                                       *)
(*  - An event-set handle is 0 (NULL) or a heap address in HeapAddrs.      *)
(*  - flow_control.events[0 .. events_num-1] is the sequence events; the   *)
(*    array entries at or above events_num are never read before          *)
(*    add_critical_event overwrites them, so they are not represented.     *)
(*  - call records the last call: its name, arguments, returned status and *)
(*    what it wrote through its output pointers.                           *)
(*  - ub names the undefined behaviour or abort the process ran into; the  *)
(*    model follows a process no further once ub is not "none".            *)
(***************************************************************************)
EXTENDS Integers, Sequences, FiniteSets, TLC

(* ---------------- program constants ---------------- *)
DEVICES_MAX == 8
FAKE_EVENTS_MAX == 8
SERIAL_MAX == 64
PCI_ADDR_LEN == 15

(* call_identity_t *)
FAKE_INIT == "FAKE_INIT"
FAKE_INIT_WITH_FLAGS == "FAKE_INIT_WITH_FLAGS"
FAKE_SHUTDOWN == "FAKE_SHUTDOWN"
FAKE_DEVICE_GET_COUNT == "FAKE_DEVICE_GET_COUNT"
FAKE_DEVICE_GET_HANDLE_BY_PCI_BUS_ID == "FAKE_DEVICE_GET_HANDLE_BY_PCI_BUS_ID"
FAKE_DEVICE_GET_HANDLE_BY_INDEX == "FAKE_DEVICE_GET_HANDLE_BY_INDEX"
FAKE_DEVICE_GET_HANDLE_BY_UUID == "FAKE_DEVICE_GET_HANDLE_BY_UUID"
FAKE_DEVICE_GET_NAME == "FAKE_DEVICE_GET_NAME"
FAKE_DEVICE_GET_PCI_INFO == "FAKE_DEVICE_GET_PCI_INFO"
FAKE_DEVICE_GET_SERIAL == "FAKE_DEVICE_GET_SERIAL"
FAKE_DEVICE_REGISTER_EVENTS == "FAKE_DEVICE_REGISTER_EVENTS"
FAKE_EVENT_SET_CREATE == "FAKE_EVENT_SET_CREATE"
FAKE_EVENT_SET_FREE == "FAKE_EVENT_SET_FREE"
FAKE_EVENT_SET_WAIT == "FAKE_EVENT_SET_WAIT"

call_identity_t ==
    { FAKE_INIT, FAKE_INIT_WITH_FLAGS, FAKE_SHUTDOWN, FAKE_DEVICE_GET_COUNT,
      FAKE_DEVICE_GET_HANDLE_BY_PCI_BUS_ID, FAKE_DEVICE_GET_HANDLE_BY_INDEX,
      FAKE_DEVICE_GET_HANDLE_BY_UUID, FAKE_DEVICE_GET_NAME,
      FAKE_DEVICE_GET_PCI_INFO, FAKE_DEVICE_GET_SERIAL,
      FAKE_DEVICE_REGISTER_EVENTS, FAKE_EVENT_SET_CREATE, FAKE_EVENT_SET_FREE,
      FAKE_EVENT_SET_WAIT }

(* hlml_return_t, as the fake uses it *)
HLML_SUCCESS == "HLML_SUCCESS"
HLML_ERROR_UNINITIALIZED == "HLML_ERROR_UNINITIALIZED"
HLML_ERROR_INVALID_ARGUMENT == "HLML_ERROR_INVALID_ARGUMENT"
HLML_ERROR_NOT_SUPPORTED == "HLML_ERROR_NOT_SUPPORTED"
HLML_ERROR_NOT_FOUND == "HLML_ERROR_NOT_FOUND"
HLML_ERROR_INSUFFICIENT_SIZE == "HLML_ERROR_INSUFFICIENT_SIZE"
HLML_ERROR_TIMEOUT == "HLML_ERROR_TIMEOUT"
HLML_ERROR_MEMORY == "HLML_ERROR_MEMORY"
HLML_ERROR_UNKNOWN == "HLML_ERROR_UNKNOWN"

HLML_EVENT_CRITICAL_ERR == "HLML_EVENT_CRITICAL_ERR"

(* the null char pointer, and the null handle *)
NULL == "<NULL>"
NULLH == 0

(* ---------------- bounds of the model ---------------- *)
(* heap addresses calloc can hand out for event sets *)
MaxEventSets == 2
HeapAddrs == 1..MaxEventSets

VARIABLES
    initialized,    \* main_struct.initialized
    devices_num,    \* main_struct.devices_num
    devices_info,   \* main_struct.devices_info[DEVICES_MAX]
    func_ret,       \* flow_control.func_ret[FAKE_CALL_IDENTITY_MAX]
    events,         \* flow_control.events[0 .. events_num-1]
    event_sets,     \* the heap: struct hlml_event_set at each address
    call,           \* the last call and what it returned
    ub              \* "none", or the undefined behaviour / abort reached

vars == <<initialized, devices_num, devices_info, func_ret, events,
          event_sets, call, ub>>

(* everything the fake keeps, without the record of the last call *)
fake_state == <<initialized, devices_num, devices_info, func_ret, events,
                event_sets, ub>>

events_num == Len(events)

(* ---------------- C library helpers ---------------- *)
Min(a, b) == IF a < b THEN a ELSE b

(* snprintf(dst, size, "%s", src): at most size-1 characters are stored *)
snprintf(src, size) == SubSeq(src, 1, Min(Len(src), size - 1))

(* strncmp(a, b, n) == 0 *)
strncmp_eq(a, b, n) ==
    SubSeq(a, 1, Min(Len(a), n)) = SubSeq(b, 1, Min(Len(b), n))

(* strcmp(a, b) == 0 *)
strcmp_eq(a, b) == a = b

HexDigit(c) ==
    CASE c = "0" -> 0 [] c = "1" -> 1 [] c = "2" -> 2 [] c = "3" -> 3
      [] c = "4" -> 4 [] c = "5" -> 5 [] c = "6" -> 6 [] c = "7" -> 7
      [] c = "8" -> 8 [] c = "9" -> 9
      [] c \in {"a", "A"} -> 10 [] c \in {"b", "B"} -> 11
      [] c \in {"c", "C"} -> 12 [] c \in {"d", "D"} -> 13
      [] c \in {"e", "E"} -> 14 [] c \in {"f", "F"} -> 15
      [] OTHER -> 16

RECURSIVE HexPrefix(_, _, _)
HexPrefix(s, i, acc) ==
    IF i > Len(s) \/ HexDigit(SubSeq(s, i, i)) = 16
        THEN acc
        ELSE HexPrefix(s, i + 1, acc * 16 + HexDigit(SubSeq(s, i, i)))

(* sscanf(s, "%x", &field): the field keeps its old value when s does not
   start with a hexadecimal digit. The strings given here have at most seven
   hexadecimal digits, so the value fits the unsigned int. *)
sscanf_x(s, old) ==
    IF Len(s) = 0 \/ HexDigit(SubSeq(s, 1, 1)) = 16 THEN old ELSE HexPrefix(s, 1, 0)

RECURSIVE BitOr(_, _, _)
BitOr(a, b, bits) ==
    IF bits = 0 THEN 0
    ELSE (IF a % 2 = 1 \/ b % 2 = 1 THEN 1 ELSE 0)
         + 2 * BitOr(a \div 2, b \div 2, bits - 1)

(* An unsigned int argument (index, length) is written as the int with the
   same 32 bits: -1 stands for 4294967295. (int)u is then u itself, and two
   unsigned values are equal when their ints are. *)
ToInt(u) == u

(* ---------------- the initial state ---------------- *)
(* static storage is zero-initialised *)
ZeroDevice ==
    [pci_addr |-> "", device_id |-> 0, vendor_id |-> 0, serial |-> "", index |-> 0]

ZeroEventSet == [i \in 1..DEVICES_MAX |-> NULLH]

NoArgs == [none |-> TRUE]
NoOut == [none |-> TRUE]

Init ==
    /\ initialized = FALSE
    /\ devices_num = 0
    /\ devices_info = [n \in 1..DEVICES_MAX |-> ZeroDevice]
    /\ func_ret = [c \in call_identity_t |-> HLML_SUCCESS]
    /\ events = <<>>
    /\ event_sets = [h \in HeapAddrs |-> [state |-> "unallocated", dev_events |-> ZeroEventSet]]
    /\ call = [op |-> "start", args |-> NoArgs, ret |-> "void", out |-> NoOut]
    /\ ub = "none"

Return(op, args, ret, out) ==
    call' = [op |-> op, args |-> args, ret |-> ret, out |-> out]

(* RETURN_IF_FAKE_ERROR(call_id): whether the macro returns *)
RETURN_IF_FAKE_ERROR(call_id) == func_ret[call_id] # HLML_SUCCESS

(* ---------------- the test control plane ---------------- *)
add_device(pci_addr, pci_device_id, pci_vendor_id, serial, index) ==
    LET n == devices_num + 1
        args == [pci_addr |-> pci_addr, pci_device_id |-> pci_device_id,
                 pci_vendor_id |-> pci_vendor_id, serial |-> serial, index |-> index]
        dev == [pci_addr |-> IF pci_addr # NULL THEN snprintf(pci_addr, PCI_ADDR_LEN) ELSE "",
                serial |-> IF serial # NULL THEN snprintf(serial, SERIAL_MAX) ELSE "",
                index |-> index,
                device_id |-> sscanf_x(pci_device_id, devices_info[n].device_id),
                vendor_id |-> sscanf_x(pci_vendor_id, devices_info[n].vendor_id)]
    IN  /\ ub = "none"
        /\ Return("add_device", args, "void", NoOut)
        /\ devices_num' = devices_num + 1
        /\ IF n <= DEVICES_MAX
             THEN /\ devices_info' = [devices_info EXCEPT ![n] = dev]
                  /\ ub' = ub
             ELSE \* devices_info[DEVICES_MAX] lies outside main_struct
                  /\ devices_info' = devices_info
                  /\ ub' = "out_of_bounds_write"
        /\ UNCHANGED <<initialized, func_ret, events, event_sets>>

(* reset as it would be without the line that empties the event queue *)
reset_keeps_events ==
    /\ ub = "none"
    /\ initialized' = FALSE
    /\ devices_num' = 0
    /\ func_ret' = [c \in call_identity_t |-> HLML_SUCCESS]
    /\ Return("reset", [nth |-> IF call.op = "reset" THEN 2 ELSE 1], "void", NoOut)
    /\ UNCHANGED <<devices_info, events, event_sets, ub>>

reset ==
    /\ ub = "none"
    /\ initialized' = FALSE
    /\ devices_num' = 0
    /\ events' = <<>>
    /\ func_ret' = [c \in call_identity_t |-> HLML_SUCCESS]
    /\ Return("reset", [nth |-> IF call.op = "reset" THEN 2 ELSE 1], "void", NoOut)
    /\ UNCHANGED <<devices_info, event_sets, ub>>

(* add_critical_event as it would be without the check against
   FAKE_EVENTS_MAX *)
add_critical_event_unchecked(serial) ==
    /\ ub = "none"
    /\ events' = Append(events, IF serial # NULL THEN snprintf(serial, SERIAL_MAX) ELSE "")
    /\ Return("add_critical_event", [serial |-> serial], "void", [error_printed |-> FALSE])
    /\ UNCHANGED <<initialized, devices_num, devices_info, func_ret, event_sets, ub>>

add_critical_event(serial) ==
    /\ ub = "none"
    /\ IF events_num = FAKE_EVENTS_MAX
         THEN events' = events
         ELSE events' = Append(events, IF serial # NULL THEN snprintf(serial, SERIAL_MAX) ELSE "")
    \* the only trace of a dropped event is the diagnostic the code prints
    /\ Return("add_critical_event", [serial |-> serial], "void",
              [error_printed |-> events_num = FAKE_EVENTS_MAX])
    /\ UNCHANGED <<initialized, devices_num, devices_info, func_ret, event_sets, ub>>

(* reset_events as it would be if it cleared the forced statuses too, as
   reset does *)
reset_events_clears_func_ret ==
    /\ ub = "none"
    /\ events' = <<>>
    /\ func_ret' = [c \in call_identity_t |-> HLML_SUCCESS]
    /\ Return("reset_events", NoArgs, "void", NoOut)
    /\ UNCHANGED <<initialized, devices_num, devices_info, event_sets, ub>>

reset_events ==
    /\ ub = "none"
    /\ events' = <<>>
    /\ Return("reset_events", NoArgs, "void", NoOut)
    /\ UNCHANGED <<initialized, devices_num, devices_info, func_ret, event_sets, ub>>

set_error(call_id, errCode) ==
    /\ ub = "none"
    /\ Return("set_error", [call_id |-> call_id, errCode |-> errCode], "void", NoOut)
    /\ IF call_id \in call_identity_t
         THEN /\ func_ret' = [func_ret EXCEPT ![call_id] = errCode]
              /\ ub' = ub
         ELSE \* assert(call_id < FAKE_CALL_IDENTITY_MAX) fails
              /\ func_ret' = func_ret
              /\ ub' = "assertion_failed"
    /\ UNCHANGED <<initialized, devices_num, devices_info, events, event_sets>>

(* ---------------- the hlml_* entry points ---------------- *)
(* a call that only returns a status, leaving the fake as it is *)
ReturnOnly(op, args, ret, out) ==
    /\ Return(op, args, ret, out)
    /\ UNCHANGED fake_state

hlml_init_with_flags(flags) ==
    /\ ub = "none"
    /\ IF RETURN_IF_FAKE_ERROR(FAKE_INIT_WITH_FLAGS)
         THEN ReturnOnly("hlml_init_with_flags", [flags |-> flags],
                         func_ret[FAKE_INIT_WITH_FLAGS], NoOut)
         ELSE /\ initialized' = TRUE
              /\ Return("hlml_init_with_flags", [flags |-> flags], HLML_SUCCESS, NoOut)
              /\ UNCHANGED <<devices_num, devices_info, func_ret, events, event_sets, ub>>

(* hlml_init as it would be if it set the flag itself instead of calling
   hlml_init_with_flags *)
hlml_init_sets_flag_itself ==
    /\ ub = "none"
    /\ IF RETURN_IF_FAKE_ERROR(FAKE_INIT)
         THEN ReturnOnly("hlml_init", NoArgs, func_ret[FAKE_INIT], NoOut)
         ELSE /\ initialized' = TRUE
              /\ Return("hlml_init", NoArgs, HLML_SUCCESS, NoOut)
              /\ UNCHANGED <<devices_num, devices_info, func_ret, events, event_sets, ub>>

hlml_init ==
    /\ ub = "none"
    /\ IF RETURN_IF_FAKE_ERROR(FAKE_INIT)
         THEN ReturnOnly("hlml_init", NoArgs, func_ret[FAKE_INIT], NoOut)
         ELSE \* return hlml_init_with_flags(0);
              IF RETURN_IF_FAKE_ERROR(FAKE_INIT_WITH_FLAGS)
                THEN ReturnOnly("hlml_init", NoArgs, func_ret[FAKE_INIT_WITH_FLAGS], NoOut)
                ELSE /\ initialized' = TRUE
                     /\ Return("hlml_init", NoArgs, HLML_SUCCESS, NoOut)
                     /\ UNCHANGED <<devices_num, devices_info, func_ret, events,
                                    event_sets, ub>>

(* hlml_shutdown as it would be with the flag cleared before the table is
   consulted *)
hlml_shutdown_flag_first ==
    /\ ub = "none"
    /\ initialized' = FALSE
    /\ Return("hlml_shutdown", NoArgs,
              IF RETURN_IF_FAKE_ERROR(FAKE_SHUTDOWN) THEN func_ret[FAKE_SHUTDOWN]
              ELSE HLML_SUCCESS, NoOut)
    /\ UNCHANGED <<devices_num, devices_info, func_ret, events, event_sets, ub>>

(* hlml_shutdown as it would be if it emptied the event queue as well *)
hlml_shutdown_drops_events ==
    /\ ub = "none"
    /\ IF RETURN_IF_FAKE_ERROR(FAKE_SHUTDOWN)
         THEN ReturnOnly("hlml_shutdown", NoArgs, func_ret[FAKE_SHUTDOWN], NoOut)
         ELSE /\ initialized' = FALSE
              /\ events' = <<>>
              /\ Return("hlml_shutdown", NoArgs, HLML_SUCCESS, NoOut)
              /\ UNCHANGED <<devices_num, devices_info, func_ret, event_sets, ub>>

hlml_shutdown ==
    /\ ub = "none"
    /\ IF RETURN_IF_FAKE_ERROR(FAKE_SHUTDOWN)
         THEN ReturnOnly("hlml_shutdown", NoArgs, func_ret[FAKE_SHUTDOWN], NoOut)
         ELSE /\ initialized' = FALSE
              /\ Return("hlml_shutdown", NoArgs, HLML_SUCCESS, NoOut)
              /\ UNCHANGED <<devices_num, devices_info, func_ret, events, event_sets, ub>>

(* device_count: whether the output pointer is non-null *)
hlml_device_get_count(device_count) ==
    LET args == [device_count |-> device_count]
        op == "hlml_device_get_count"
    IN  /\ ub = "none"
        /\ IF RETURN_IF_FAKE_ERROR(FAKE_DEVICE_GET_COUNT)
             THEN ReturnOnly(op, args, func_ret[FAKE_DEVICE_GET_COUNT], NoOut)
             ELSE IF ~device_count
               THEN ReturnOnly(op, args, HLML_ERROR_INVALID_ARGUMENT, NoOut)
               ELSE ReturnOnly(op, args, HLML_SUCCESS, [device_count |-> devices_num])

(* the loop as it would be if it took the device whose address strncmp finds
   equal to pci_addr *)
pci_bus_id_scan_on_equality(pci_addr) ==
    LET hits == {n \in 1..Min(devices_num, DEVICES_MAX) :
                    strncmp_eq(pci_addr, devices_info[n].pci_addr, PCI_ADDR_LEN)}
    IN  IF hits = {} THEN 0 ELSE CHOOSE n \in hits : \A m \in hits : n <= m

(* the first n in 1..devices_num whose stored address strncmp finds
   different from pci_addr, or 0 *)
pci_bus_id_scan(pci_addr) ==
    LET hits == {n \in 1..Min(devices_num, DEVICES_MAX) :
                    ~strncmp_eq(pci_addr, devices_info[n].pci_addr, PCI_ADDR_LEN)}
    IN  IF hits = {} THEN 0 ELSE CHOOSE n \in hits : \A m \in hits : n <= m

(* device: whether the output pointer is non-null *)
hlml_device_get_handle_by_pci_bus_id(pci_addr, device) ==
    LET args == [pci_addr |-> pci_addr, device |-> device]
        op == "hlml_device_get_handle_by_pci_bus_id"
    IN  /\ ub = "none"
        /\ IF RETURN_IF_FAKE_ERROR(FAKE_DEVICE_GET_HANDLE_BY_PCI_BUS_ID)
             THEN ReturnOnly(op, args, func_ret[FAKE_DEVICE_GET_HANDLE_BY_PCI_BUS_ID], NoOut)
             ELSE IF ~initialized
               THEN ReturnOnly(op, args, HLML_ERROR_UNINITIALIZED, NoOut)
             ELSE IF ~device \/ pci_addr = NULL
               THEN ReturnOnly(op, args, HLML_ERROR_INVALID_ARGUMENT, NoOut)
             ELSE IF pci_bus_id_scan(pci_addr) # 0
               THEN ReturnOnly(op, args, HLML_SUCCESS, [device |-> pci_bus_id_scan(pci_addr)])
             ELSE ReturnOnly(op, args, HLML_ERROR_NOT_FOUND, NoOut)

(* the first n in 1..devices_num whose index field equals index, or 0 *)
index_scan(index) ==
    LET hits == {n \in 1..Min(devices_num, DEVICES_MAX) : devices_info[n].index = index}
    IN  IF hits = {} THEN 0 ELSE CHOOSE n \in hits : \A m \in hits : n <= m

(* hlml_device_get_handle_by_index as it would be with the arguments checked
   before main_struct.initialized *)
hlml_device_get_handle_by_index_args_first(index, device) ==
    LET args == [index |-> index, device |-> device]
        op == "hlml_device_get_handle_by_index"
    IN  /\ ub = "none"
        /\ IF RETURN_IF_FAKE_ERROR(FAKE_DEVICE_GET_HANDLE_BY_INDEX)
             THEN ReturnOnly(op, args, func_ret[FAKE_DEVICE_GET_HANDLE_BY_INDEX], NoOut)
             ELSE IF ~device \/ ToInt(index) >= devices_num
               THEN ReturnOnly(op, args, HLML_ERROR_INVALID_ARGUMENT, NoOut)
             ELSE IF ~initialized
               THEN ReturnOnly(op, args, HLML_ERROR_UNINITIALIZED, NoOut)
             ELSE IF index_scan(index) # 0
               THEN ReturnOnly(op, args, HLML_SUCCESS, [device |-> index_scan(index)])
             ELSE ReturnOnly(op, args, HLML_ERROR_NOT_FOUND, NoOut)

hlml_device_get_handle_by_index(index, device) ==
    LET args == [index |-> index, device |-> device]
        op == "hlml_device_get_handle_by_index"
    IN  /\ ub = "none"
        /\ IF RETURN_IF_FAKE_ERROR(FAKE_DEVICE_GET_HANDLE_BY_INDEX)
             THEN ReturnOnly(op, args, func_ret[FAKE_DEVICE_GET_HANDLE_BY_INDEX], NoOut)
             ELSE IF ~initialized
               THEN ReturnOnly(op, args, HLML_ERROR_UNINITIALIZED, NoOut)
             ELSE IF ~device \/ ToInt(index) >= devices_num
               THEN ReturnOnly(op, args, HLML_ERROR_INVALID_ARGUMENT, NoOut)
             ELSE IF index_scan(index) # 0
               THEN ReturnOnly(op, args, HLML_SUCCESS, [device |-> index_scan(index)])
             ELSE ReturnOnly(op, args, HLML_ERROR_NOT_FOUND, NoOut)

hlml_device_get_handle_by_UUID ==
    /\ ub = "none"
    /\ ReturnOnly("hlml_device_get_handle_by_UUID", NoArgs, HLML_SUCCESS, NoOut)

hlml_device_get_name ==
    /\ ub = "none"
    /\ ReturnOnly("hlml_device_get_name", NoArgs, HLML_SUCCESS, NoOut)

(* device: a device handle; pci: whether the output pointer is non-null *)
hlml_device_get_pci_info(device, pci) ==
    LET args == [device |-> device, pci |-> pci]
        op == "hlml_device_get_pci_info"
    IN  /\ ub = "none"
        /\ IF RETURN_IF_FAKE_ERROR(FAKE_DEVICE_GET_PCI_INFO)
             THEN ReturnOnly(op, args, func_ret[FAKE_DEVICE_GET_PCI_INFO], NoOut)
             ELSE IF ~initialized
               THEN ReturnOnly(op, args, HLML_ERROR_UNINITIALIZED, NoOut)
             ELSE IF device = NULLH \/ ~pci
               THEN ReturnOnly(op, args, HLML_ERROR_INVALID_ARGUMENT, NoOut)
             ELSE ReturnOnly(op, args, HLML_SUCCESS,
                    [bus_id |-> snprintf(devices_info[device].pci_addr, PCI_ADDR_LEN),
                     \* device_id | (vendor_id << 16), as its two 16-bit halves
                     pci_device_id |->
                        [hi |-> BitOr((devices_info[device].device_id \div 65536) % 65536,
                                      devices_info[device].vendor_id % 65536, 16),
                         lo |-> devices_info[device].device_id % 65536]])

(* a stub outside the stateful subset, e.g. hlml_device_get_clock_info *)
hlml_not_supported(name) ==
    /\ ub = "none"
    /\ ReturnOnly(name, NoArgs, HLML_ERROR_NOT_SUPPORTED, NoOut)

(* device: a device handle; serial: whether the buffer pointer is non-null;
   length: the buffer's length *)
hlml_device_get_serial(device, serial, length) ==
    LET args == [device |-> device, serial |-> serial, length |-> length]
        op == "hlml_device_get_serial"
    IN  /\ ub = "none"
        /\ IF ~(serial /\ length # 0)
             THEN \* assert(serial && length > 0) fails; length is unsigned, so
                  \* length > 0 is length != 0
                  /\ Return(op, args, "SIGABRT", NoOut)
                  /\ ub' = "assertion_failed"
                  /\ UNCHANGED <<initialized, devices_num, devices_info, func_ret,
                                 events, event_sets>>
             ELSE IF func_ret[FAKE_DEVICE_GET_SERIAL] # HLML_SUCCESS
               THEN ReturnOnly(op, args, func_ret[FAKE_DEVICE_GET_SERIAL], [serial |-> ""])
             ELSE IF device = NULLH
               THEN ReturnOnly(op, args, HLML_SUCCESS, [serial |-> ""])
             ELSE IF SERIAL_MAX > ToInt(length)
               THEN ReturnOnly(op, args, HLML_ERROR_INSUFFICIENT_SIZE, NoOut)
             ELSE \* strncpy(serial, device_info->serial, length)
                  ReturnOnly(op, args, HLML_SUCCESS,
                             [serial |-> SubSeq(devices_info[device].serial, 1,
                                                Min(Len(devices_info[device].serial), length))])

(* ---------------- event sets ---------------- *)
Live(set) == set \in HeapAddrs /\ event_sets[set].state = "created"

(* the loop as it would be if it looked for an empty slot only *)
register_events_scan_empty_only(dev_events, device) ==
    LET hits == {i \in 1..DEVICES_MAX : dev_events[i] = NULLH}
    IN  IF hits = {} THEN DEVICES_MAX + 1 ELSE CHOOSE i \in hits : \A j \in hits : i <= j

(* the loop as it would be if it stopped one slot short of DEVICES_MAX *)
register_events_scan_one_short(dev_events, device) ==
    LET hits == {i \in 1..(DEVICES_MAX - 1) : dev_events[i] = NULLH \/ dev_events[i] = device}
    IN  IF hits = {} THEN DEVICES_MAX + 1 ELSE CHOOSE i \in hits : \A j \in hits : i <= j

(* the loop of hlml_device_register_events over dev_events: the first slot
   that is empty or already holds device, or DEVICES_MAX + 1 *)
register_events_scan(dev_events, device) ==
    LET hits == {i \in 1..DEVICES_MAX : dev_events[i] = NULLH \/ dev_events[i] = device}
    IN  IF hits = {} THEN DEVICES_MAX + 1 ELSE CHOOSE i \in hits : \A j \in hits : i <= j

(* the slots as they would be if a new device went into the last empty slot *)
register_events_store_last_empty(dev_events, device) ==
    LET empty == {i \in 1..DEVICES_MAX : dev_events[i] = NULLH}
    IN  IF empty = {} \/ device \in {dev_events[i] : i \in 1..DEVICES_MAX}
          THEN dev_events
          ELSE [dev_events EXCEPT ![CHOOSE i \in empty : \A j \in empty : j <= i] = device]

(* the slots after the loop: the slot it stopped at holds device *)
register_events_store(dev_events, device) ==
    LET i == register_events_scan(dev_events, device)
    IN  IF i <= DEVICES_MAX /\ dev_events[i] = NULLH
          THEN [dev_events EXCEPT ![i] = device]
          ELSE dev_events

(* device: a device handle; set: an event-set handle *)
hlml_device_register_events(device, event_types, set) ==
    LET args == [device |-> device, event_types |-> event_types, set |-> set]
        op == "hlml_device_register_events"
    IN  /\ ub = "none"
        /\ IF RETURN_IF_FAKE_ERROR(FAKE_DEVICE_REGISTER_EVENTS)
             THEN ReturnOnly(op, args, func_ret[FAKE_DEVICE_REGISTER_EVENTS], NoOut)
             ELSE IF set = NULLH
               THEN \* &event_set->dev_events[0] is read through a null pointer
                    /\ Return(op, args, "SIGSEGV", NoOut)
                    /\ ub' = "null_dereference"
                    /\ UNCHANGED <<initialized, devices_num, devices_info, func_ret,
                                   events, event_sets>>
             ELSE IF ~Live(set)
               THEN \* the slots read and written are freed storage
                    /\ \E r \in {HLML_SUCCESS, HLML_ERROR_INVALID_ARGUMENT} :
                          Return(op, args, r, NoOut)
                    /\ ub' = "use_after_free"
                    /\ UNCHANGED <<initialized, devices_num, devices_info, func_ret,
                                   events, event_sets>>
             ELSE /\ event_sets' = [event_sets EXCEPT ![set].dev_events =
                                      register_events_store(@, device)]
                  /\ Return(op, args,
                            IF register_events_scan(event_sets[set].dev_events, device)
                                   = DEVICES_MAX + 1
                              THEN HLML_ERROR_INVALID_ARGUMENT ELSE HLML_SUCCESS,
                            NoOut)
                  /\ UNCHANGED <<initialized, devices_num, devices_info, func_ret,
                                 events, ub>>

(* hlml_event_set_create as it would be without the check of
   main_struct.initialized *)
hlml_event_set_create_no_init_check(set, addr) ==
    LET args == [set |-> set]
        op == "hlml_event_set_create"
    IN  /\ ub = "none"
        /\ addr = NULLH \/ (addr \in HeapAddrs /\ ~Live(addr))
        /\ IF RETURN_IF_FAKE_ERROR(FAKE_EVENT_SET_CREATE)
             THEN ReturnOnly(op, args, func_ret[FAKE_EVENT_SET_CREATE], NoOut)
             ELSE IF ~set
               THEN ReturnOnly(op, args, HLML_ERROR_INVALID_ARGUMENT, NoOut)
             ELSE IF addr = NULLH
               THEN ReturnOnly(op, args, HLML_ERROR_MEMORY, NoOut)
             ELSE /\ event_sets' = [event_sets EXCEPT ![addr] =
                                      [state |-> "created", dev_events |-> ZeroEventSet]]
                  /\ Return(op, args, HLML_SUCCESS, [set |-> addr])
                  /\ UNCHANGED <<initialized, devices_num, devices_info, func_ret,
                                 events, ub>>

(* set: whether the output pointer is non-null; addr: what calloc returns,
   NULLH or an address not in use *)
hlml_event_set_create(set, addr) ==
    LET args == [set |-> set]
        op == "hlml_event_set_create"
    IN  /\ ub = "none"
        /\ addr = NULLH \/ (addr \in HeapAddrs /\ ~Live(addr))
        /\ IF RETURN_IF_FAKE_ERROR(FAKE_EVENT_SET_CREATE)
             THEN ReturnOnly(op, args, func_ret[FAKE_EVENT_SET_CREATE], NoOut)
             ELSE IF ~initialized
               THEN ReturnOnly(op, args, HLML_ERROR_UNINITIALIZED, NoOut)
             ELSE IF ~set
               THEN ReturnOnly(op, args, HLML_ERROR_INVALID_ARGUMENT, NoOut)
             ELSE IF addr = NULLH
               THEN ReturnOnly(op, args, HLML_ERROR_MEMORY, NoOut)
             ELSE /\ event_sets' = [event_sets EXCEPT ![addr] =
                                      [state |-> "created", dev_events |-> ZeroEventSet]]
                  /\ Return(op, args, HLML_SUCCESS, [set |-> addr])
                  /\ UNCHANGED <<initialized, devices_num, devices_info, func_ret,
                                 events, ub>>

(* set: an event-set handle *)
hlml_event_set_free(set) ==
    LET args == [set |-> set]
        op == "hlml_event_set_free"
    IN  /\ ub = "none"
        /\ IF RETURN_IF_FAKE_ERROR(FAKE_EVENT_SET_FREE)
             THEN ReturnOnly(op, args, func_ret[FAKE_EVENT_SET_FREE], NoOut)
             ELSE IF ~initialized
               THEN ReturnOnly(op, args, HLML_ERROR_UNINITIALIZED, NoOut)
             ELSE IF set = NULLH
               THEN ReturnOnly(op, args, HLML_ERROR_INVALID_ARGUMENT, NoOut)
             ELSE IF ~Live(set)
               THEN \* free() of storage already freed
                    /\ \E r \in {HLML_SUCCESS, "SIGABRT"} : Return(op, args, r, NoOut)
                    /\ ub' = "double_free"
                    /\ UNCHANGED <<initialized, devices_num, devices_info, func_ret,
                                   events, event_sets>>
             ELSE \* the contents of freed storage are indeterminate; the model
                  \* keeps no contents for it
                  /\ event_sets' = [event_sets EXCEPT ![set] =
                                      [state |-> "freed", dev_events |-> ZeroEventSet]]
                  /\ Return(op, args, HLML_SUCCESS, NoOut)
                  /\ UNCHANGED <<initialized, devices_num, devices_info, func_ret,
                                 events, ub>>

(* the loop as it would be if it took the first registered device whenever
   an event is queued, without comparing serials *)
event_set_wait_scan_no_compare(dev_events) ==
    IF events_num > 0 /\ dev_events[1] # NULLH THEN 1 ELSE 0

(* the loop as it would be if it compared every queued event, not the last *)
event_set_wait_scan_whole_queue(dev_events) ==
    LET empty == {i \in 1..DEVICES_MAX : dev_events[i] = NULLH}
        stop == IF empty = {} THEN DEVICES_MAX + 1
                ELSE CHOOSE i \in empty : \A j \in empty : i <= j
        hits == {i \in 1..(stop - 1) :
                    \E k \in 1..events_num :
                        strcmp_eq(events[k], devices_info[dev_events[i]].serial)}
    IN  IF hits = {} THEN 0 ELSE CHOOSE i \in hits : \A j \in hits : i <= j

(* the loop as it would be if it looked at the first slot only *)
event_set_wait_scan_first_slot(dev_events) ==
    IF /\ dev_events[1] # NULLH
       /\ events_num > 0
       /\ strcmp_eq(events[events_num], devices_info[dev_events[1]].serial)
      THEN 1 ELSE 0

(* the loop of hlml_event_set_wait over dev_events: the slot whose device has
   the serial of the last queued event, found before the first empty slot;
   0 when there is none *)
event_set_wait_scan(dev_events) ==
    LET empty == {i \in 1..DEVICES_MAX : dev_events[i] = NULLH}
        stop == IF empty = {} THEN DEVICES_MAX + 1
                ELSE CHOOSE i \in empty : \A j \in empty : i <= j
        hits == {i \in 1..(stop - 1) :
                    /\ events_num > 0
                    /\ strcmp_eq(events[events_num], devices_info[dev_events[i]].serial)}
    IN  IF hits = {} THEN 0 ELSE CHOOSE i \in hits : \A j \in hits : i <= j

(* the queue as it would be if the oldest event were the one removed *)
event_set_wait_consume_oldest == SubSeq(events, 2, events_num)

(* the queue as it would be if the wait left the event it found on it *)
event_set_wait_consume_none == events

(* the queue after a wait that found an event: flow_control.events_num-- *)
event_set_wait_consume == SubSeq(events, 1, events_num - 1)

(* hlml_event_set_wait as it would be if a timeout of 0 meant not to look at
   the queue *)
hlml_event_set_wait_zero_skips(set, data, timeoutms) ==
    LET args == [set |-> set, data |-> data, timeoutms |-> timeoutms]
        op == "hlml_event_set_wait"
    IN  /\ ub = "none"
        /\ IF RETURN_IF_FAKE_ERROR(FAKE_EVENT_SET_WAIT)
             THEN ReturnOnly(op, args, func_ret[FAKE_EVENT_SET_WAIT], NoOut)
             ELSE IF ~initialized
               THEN ReturnOnly(op, args, HLML_ERROR_UNINITIALIZED, NoOut)
             ELSE IF set = NULLH \/ ~data
               THEN ReturnOnly(op, args, HLML_ERROR_INVALID_ARGUMENT, NoOut)
             ELSE IF ~Live(set)
               THEN /\ \E r \in {HLML_SUCCESS, HLML_ERROR_TIMEOUT, "SIGSEGV"} :
                          Return(op, args, r, NoOut)
                    /\ ub' = "use_after_free"
                    /\ UNCHANGED <<initialized, devices_num, devices_info, func_ret,
                                   events, event_sets>>
             ELSE LET i == IF timeoutms = 0 THEN 0
                           ELSE event_set_wait_scan(event_sets[set].dev_events)
                  IN  IF i # 0
                        THEN /\ events' = event_set_wait_consume
                             /\ Return(op, args, HLML_SUCCESS,
                                       [device |-> event_sets[set].dev_events[i],
                                        event_type |-> {HLML_EVENT_CRITICAL_ERR}])
                             /\ UNCHANGED <<initialized, devices_num, devices_info,
                                            func_ret, event_sets, ub>>
                        ELSE ReturnOnly(op, args, HLML_ERROR_TIMEOUT, NoOut)

(* set: an event-set handle; data: whether the output pointer is non-null *)
hlml_event_set_wait(set, data, timeoutms) ==
    LET args == [set |-> set, data |-> data, timeoutms |-> timeoutms]
        op == "hlml_event_set_wait"
    IN  /\ ub = "none"
        /\ IF RETURN_IF_FAKE_ERROR(FAKE_EVENT_SET_WAIT)
             THEN ReturnOnly(op, args, func_ret[FAKE_EVENT_SET_WAIT], NoOut)
             ELSE IF ~initialized
               THEN ReturnOnly(op, args, HLML_ERROR_UNINITIALIZED, NoOut)
             ELSE IF set = NULLH \/ ~data
               THEN ReturnOnly(op, args, HLML_ERROR_INVALID_ARGUMENT, NoOut)
             ELSE IF ~Live(set)
               THEN \* the slots read are freed storage
                    /\ \E r \in {HLML_SUCCESS, HLML_ERROR_TIMEOUT, "SIGSEGV"} :
                          Return(op, args, r, NoOut)
                    /\ ub' = "use_after_free"
                    /\ UNCHANGED <<initialized, devices_num, devices_info, func_ret,
                                   events, event_sets>>
             ELSE LET i == event_set_wait_scan(event_sets[set].dev_events)
                  IN  IF i # 0
                        THEN /\ events' = event_set_wait_consume
                             /\ Return(op, args, HLML_SUCCESS,
                                       [device |-> event_sets[set].dev_events[i],
                                        event_type |-> {HLML_EVENT_CRITICAL_ERR}])
                             /\ UNCHANGED <<initialized, devices_num, devices_info,
                                            func_ret, event_sets, ub>>
                        ELSE ReturnOnly(op, args, HLML_ERROR_TIMEOUT, NoOut)


(* ---------------- inputs ---------------- *)
InjectedStatuses == {HLML_SUCCESS, HLML_ERROR_UNKNOWN, HLML_ERROR_TIMEOUT}

Injected == {c \in call_identity_t : func_ret[c] # HLML_SUCCESS}

(* handles a caller can hold: to a registered device, to an event set that
   hlml_event_set_create has returned *)
DeviceHandles == {NULLH} \cup (1..Min(devices_num, DEVICES_MAX))
EventSetHandles == {NULLH} \cup {h \in HeapAddrs : event_sets[h].state # "unallocated"}

(* ---------------- Spec: the entry points under error injection ---------------- *)
(* at most MaxInjected entries of func_ret are forced at a time; one device,
   one queued event and one event set are enough to tell a call that changed
   the fake from one that did not *)
MaxInjected == 1
ApiDevices == 1
ApiEvents == 1
ApiEventSets == 1

ApiAddDevice ==
    /\ devices_num < ApiDevices
    /\ add_device("0000:01:00.0", "1020", "1da3", "S1", 0)

ApiAddEvent ==
    /\ events_num < ApiEvents
    /\ add_critical_event("S1")

ApiSetError ==
    \E c \in call_identity_t \cup {"FAKE_CALL_IDENTITY_MAX"}, e \in InjectedStatuses :
        /\ e # HLML_SUCCESS => Cardinality(Injected \cup {c}) <= MaxInjected
        /\ set_error(c, e)

ApiCalls ==
    \/ hlml_init
    \/ hlml_init_with_flags(0)
    \/ hlml_shutdown
    \/ \E p \in BOOLEAN : hlml_device_get_count(p)
    \/ \E a \in {NULL, "0000:01:00.0", "0000:02:00.0"}, p \in BOOLEAN :
          hlml_device_get_handle_by_pci_bus_id(a, p)
    \/ \E i \in 0..1, p \in BOOLEAN : hlml_device_get_handle_by_index(i, p)
    \/ hlml_device_get_handle_by_UUID
    \/ hlml_device_get_name
    \/ \E d \in DeviceHandles, p \in BOOLEAN : hlml_device_get_pci_info(d, p)
    \/ \E d \in DeviceHandles, b \in BOOLEAN, l \in {0, SERIAL_MAX - 1, SERIAL_MAX} :
          hlml_device_get_serial(d, b, l)
    \/ \E d \in DeviceHandles, h \in EventSetHandles :
          hlml_device_register_events(d, {HLML_EVENT_CRITICAL_ERR}, h)
    \/ \E p \in BOOLEAN, a \in {NULLH} \cup (1..ApiEventSets) : hlml_event_set_create(p, a)
    \/ \E h \in EventSetHandles : hlml_event_set_free(h)
    \/ \E h \in EventSetHandles, p \in BOOLEAN : hlml_event_set_wait(h, p, 1000)
    \/ hlml_not_supported("hlml_device_get_uuid")

Next ==
    \/ ApiAddDevice
    \/ reset
    \/ ApiAddEvent
    \/ reset_events
    \/ ApiSetError
    \/ ApiCalls

Spec == Init /\ [][Next]_vars


(* ---------------- claims checked under Spec ---------------- *)
(* the func_ret entry each entry point names in RETURN_IF_FAKE_ERROR, or
   should name by call_identity_t *)
CallIdOf(op) ==
    CASE op = "hlml_init" -> FAKE_INIT
      [] op = "hlml_init_with_flags" -> FAKE_INIT_WITH_FLAGS
      [] op = "hlml_shutdown" -> FAKE_SHUTDOWN
      [] op = "hlml_device_get_count" -> FAKE_DEVICE_GET_COUNT
      [] op = "hlml_device_get_handle_by_pci_bus_id" -> FAKE_DEVICE_GET_HANDLE_BY_PCI_BUS_ID
      [] op = "hlml_device_get_handle_by_index" -> FAKE_DEVICE_GET_HANDLE_BY_INDEX
      [] op = "hlml_device_get_handle_by_UUID" -> FAKE_DEVICE_GET_HANDLE_BY_UUID
      [] op = "hlml_device_get_name" -> FAKE_DEVICE_GET_NAME
      [] op = "hlml_device_get_pci_info" -> FAKE_DEVICE_GET_PCI_INFO
      [] op = "hlml_device_get_serial" -> FAKE_DEVICE_GET_SERIAL
      [] op = "hlml_device_register_events" -> FAKE_DEVICE_REGISTER_EVENTS
      [] op = "hlml_event_set_create" -> FAKE_EVENT_SET_CREATE
      [] op = "hlml_event_set_free" -> FAKE_EVENT_SET_FREE
      [] op = "hlml_event_set_wait" -> FAKE_EVENT_SET_WAIT

EntryPoints ==
    { "hlml_init", "hlml_init_with_flags", "hlml_shutdown", "hlml_device_get_count",
      "hlml_device_get_handle_by_pci_bus_id", "hlml_device_get_handle_by_index",
      "hlml_device_get_handle_by_UUID", "hlml_device_get_name",
      "hlml_device_get_pci_info", "hlml_device_get_serial",
      "hlml_device_register_events", "hlml_event_set_create", "hlml_event_set_free",
      "hlml_event_set_wait" }

StatefulEntryPoints ==
    EntryPoints \ { "hlml_device_get_handle_by_UUID", "hlml_device_get_name",
                    "hlml_device_get_serial" }

(* C1: a call to the entry point of an operation whose func_ret entry is
   forced to a status other than success returns exactly that status. The
   entry points never write func_ret, so the entry read after the call is the
   one set_error left before it. Calls that abort on a failed assertion are
   left aside. *)
C1_InjectedStatusReturned ==
    (/\ call.op \in EntryPoints
     /\ ub = "none"
     /\ func_ret[CallIdOf(call.op)] # HLML_SUCCESS)
        => call.ret = func_ret[CallIdOf(call.op)]

(* C2: a stateful entry point called while its func_ret entry is forced
   returns the forced status and leaves the whole fake as it was, whatever
   its arguments and the initialized flag. *)
C2_InjectedErrorShortCircuits ==
    [][ (/\ call'.op \in StatefulEntryPoints
         /\ func_ret[CallIdOf(call'.op)] # HLML_SUCCESS)
            => (/\ call'.ret = func_ret[CallIdOf(call'.op)]
                /\ UNCHANGED fake_state) ]_vars

(* hlml_shutdown has returned a forced status and the library is still
   initialized; register_events has returned one for a null event set *)
C2_Witness ==
    \/ /\ call.op = "hlml_shutdown"
       /\ call.ret = HLML_ERROR_UNKNOWN
       /\ initialized
    \/ /\ call.op = "hlml_device_register_events"
       /\ call.ret = HLML_ERROR_TIMEOUT
       /\ call.args.set = NULLH

(* C3: reset leaves zero devices, the library uninitialized, every func_ret
   entry at success and the event queue empty; a reset right after a reset
   changes nothing. *)
C3_ResetRestores ==
    [][ call'.op = "reset"
            => (/\ devices_num' = 0
                /\ initialized' = FALSE
                /\ \A c \in call_identity_t : func_ret'[c] = HLML_SUCCESS
                /\ events_num' = 0
                /\ call.op = "reset" => UNCHANGED fake_state) ]_vars

(* a second reset in a row has run *)
C3_Witness ==
    /\ call.op = "reset"
    /\ call.args.nth = 2
    /\ devices_num = 0 /\ ~initialized /\ events_num = 0 /\ Injected = {}

(* C11: with no status forced on hlml_event_set_create, the call returns
   HLML_ERROR_UNINITIALIZED and allocates nothing while the library is not
   initialized, which it is at the start, after reset and after a successful
   hlml_shutdown, until hlml_init or hlml_init_with_flags succeeds; in an
   initialized library, given a place for the handle, it returns success with
   an event set that was not in use and whose DEVICES_MAX slots are empty
   (HLML_ERROR_MEMORY, with nothing allocated, when calloc returns NULL). *)
C11_CreateNeedsInit ==
    [][ /\ (call'.op = "reset" \/ (call'.op = "hlml_shutdown" /\ call'.ret = HLML_SUCCESS))
             => ~initialized'
        /\ (~initialized /\ initialized')
             => (/\ call'.op \in {"hlml_init", "hlml_init_with_flags"}
                 /\ call'.ret = HLML_SUCCESS)
        /\ (/\ call'.op = "hlml_event_set_create"
            /\ func_ret[FAKE_EVENT_SET_CREATE] = HLML_SUCCESS)
             => IF ~initialized
                  THEN /\ call'.ret = HLML_ERROR_UNINITIALIZED
                       /\ call'.out = NoOut
                       /\ UNCHANGED fake_state
                  ELSE call'.args.set
                         => \/ /\ call'.ret = HLML_SUCCESS
                               /\ call'.out.set \in HeapAddrs
                               /\ ~Live(call'.out.set)
                               /\ event_sets' = [event_sets EXCEPT ![call'.out.set] =
                                     [state |-> "created",
                                      dev_events |-> [i \in 1..DEVICES_MAX |-> NULLH]]]
                               /\ UNCHANGED <<initialized, devices_num, devices_info,
                                              func_ret, events, ub>>
                            \/ /\ call'.ret = HLML_ERROR_MEMORY
                               /\ UNCHANGED fake_state ]_vars

(* hlml_event_set_create has returned HLML_ERROR_UNINITIALIZED in a library
   that was initialized before: an event set it created then is still there *)
C11_Witness ==
    /\ call.op = "hlml_event_set_create"
    /\ call.ret = HLML_ERROR_UNINITIALIZED
    /\ call.args.set
    /\ ~initialized
    /\ Injected = {}
    /\ \E h \in HeapAddrs : Live(h)

(* the entry points whose checks come in the order forced status,
   initialized, arguments *)
PrecedenceEntryPoints ==
    { "hlml_device_get_handle_by_pci_bus_id", "hlml_device_get_handle_by_index",
      "hlml_device_get_pci_info", "hlml_event_set_create", "hlml_event_set_free",
      "hlml_event_set_wait" }

(* the arguments c.args of the call c.op are refused by its argument check:
   a null pointer or handle, or an index that the check of
   hlml_device_get_handle_by_index finds at or above the device count *)
ArgumentsRefused(c) ==
    CASE c.op = "hlml_device_get_handle_by_pci_bus_id"
           -> ~c.args.device \/ c.args.pci_addr = NULL
      [] c.op = "hlml_device_get_handle_by_index"
           -> ~c.args.device \/ ToInt(c.args.index) >= devices_num
      [] c.op = "hlml_device_get_pci_info" -> c.args.device = NULLH \/ ~c.args.pci
      [] c.op = "hlml_event_set_create" -> ~c.args.set
      [] c.op = "hlml_event_set_free" -> c.args.set = NULLH
      [] c.op = "hlml_event_set_wait" -> c.args.set = NULLH \/ ~c.args.data

(* C18: in the two handle lookups, hlml_device_get_pci_info and the event-set
   create, free and wait, a forced status is returned before anything else;
   with none forced, an uninitialized library gives
   HLML_ERROR_UNINITIALIZED whatever the arguments; only then are refused
   arguments reported, as HLML_ERROR_INVALID_ARGUMENT; and
   HLML_ERROR_NOT_FOUND comes only from a lookup that passed both checks. A
   call that returns anything but success changes nothing. Calls on an event
   set already freed are left aside. *)
C18_StatusPrecedence ==
    [][ (/\ call'.op \in PrecedenceEntryPoints
         /\ call'.op \in {"hlml_event_set_free", "hlml_event_set_wait"}
               => (call'.args.set = NULLH \/ Live(call'.args.set)))
          => /\ IF func_ret[CallIdOf(call'.op)] # HLML_SUCCESS
                  THEN call'.ret = func_ret[CallIdOf(call'.op)]
                  ELSE IF ~initialized
                    THEN call'.ret = HLML_ERROR_UNINITIALIZED
                  ELSE IF ArgumentsRefused(call')
                    THEN call'.ret = HLML_ERROR_INVALID_ARGUMENT
                  ELSE /\ call'.ret \notin {HLML_ERROR_UNINITIALIZED,
                                            HLML_ERROR_INVALID_ARGUMENT}
                       /\ call'.ret = HLML_ERROR_NOT_FOUND
                            => call'.op \in {"hlml_device_get_handle_by_pci_bus_id",
                                             "hlml_device_get_handle_by_index"}
             /\ call'.ret # HLML_SUCCESS => UNCHANGED fake_state ]_vars

(* the lookup by index has returned HLML_ERROR_UNINITIALIZED for a null
   output pointer and an index at or above the device count *)
C18_Witness ==
    /\ call.op = "hlml_device_get_handle_by_index"
    /\ call.ret = HLML_ERROR_UNINITIALIZED
    /\ ~call.args.device
    /\ call.args.index >= devices_num
    /\ ~initialized
    /\ Injected = {}


(* ---------------- SpecEvents: event sets and the event queue ---------------- *)
(* up to EvDevices devices with serial "S1" or "S2", up to EvEvents queued
   events and EvEventSets event sets; errors are forced on the event-set
   entry points only. The lookups are left out: they change nothing, and the
   handles they would return are the DeviceHandles. *)
EvDevices == 2
EvEvents == 2
EvEventSets == 1
EvSerials == {"S1", "S2"}
EvCallIds == {FAKE_DEVICE_REGISTER_EVENTS, FAKE_EVENT_SET_FREE, FAKE_EVENT_SET_WAIT}

EvAddDevice ==
    /\ devices_num < EvDevices
    /\ \E sn \in EvSerials : add_device("0000:01:00.0", "1020", "1da3", sn, 0)

EvAddEvent ==
    /\ events_num < EvEvents
    /\ \E sn \in EvSerials : add_critical_event(sn)

EvSetError ==
    \E c \in EvCallIds, e \in {HLML_SUCCESS, HLML_ERROR_UNKNOWN} :
        /\ e # HLML_SUCCESS => Cardinality(Injected \cup {c}) <= MaxInjected
        /\ set_error(c, e)

EvCalls ==
    \/ hlml_init
    \/ hlml_shutdown
    \/ \E d \in DeviceHandles, h \in EventSetHandles :
          hlml_device_register_events(d, {HLML_EVENT_CRITICAL_ERR}, h)
    \/ \E p \in BOOLEAN, a \in {NULLH} \cup (1..EvEventSets) : hlml_event_set_create(p, a)
    \/ \E h \in EventSetHandles : hlml_event_set_free(h)
    \/ \E h \in EventSetHandles, p \in BOOLEAN, t \in {0, 1000} :
          hlml_event_set_wait(h, p, t)

NextEvents ==
    \/ EvAddDevice
    \/ reset
    \/ EvAddEvent
    \/ reset_events
    \/ EvSetError
    \/ EvCalls

SpecEvents == Init /\ [][NextEvents]_vars


(* ---------------- SpecFull: the registry, queue and slots at capacity -------- *)
(* the harness adds devices "S1", "S2", ... in turn, each with its position
   as index, queues the events "S1", "S2", ... in turn, and registers the
   devices into the event set in registry order (or again the first or the
   last registered, or a null handle). Nothing caps the number of devices or
   events: the code's own limits, or their absence, decide. *)
FullEventSets == 1
FullSerials == <<"S1", "S2", "S3", "S4", "S5", "S6", "S7", "S8", "S9">>
FullCallIds == {FAKE_DEVICE_REGISTER_EVENTS, FAKE_EVENT_SET_WAIT}

(* the number of occupied slots among dev_events, and of the event set at h *)
OccupiedSlots(dev_events) == Cardinality({i \in 1..DEVICES_MAX : dev_events[i] # NULLH})
Occupied(h) == OccupiedSlots(event_sets[h].dev_events)

FullAddDevice ==
    /\ devices_num < Len(FullSerials)
    /\ add_device("0000:01:00.0", "1020", "1da3", FullSerials[devices_num + 1], devices_num)

FullAddEvent ==
    add_critical_event(FullSerials[Min(events_num, FAKE_EVENTS_MAX) + 1])

FullSetError ==
    \E c \in FullCallIds, e \in {HLML_SUCCESS, HLML_ERROR_UNKNOWN} :
        /\ e # HLML_SUCCESS => Cardinality(Injected \cup {c}) <= MaxInjected
        /\ set_error(c, e)

FullCalls ==
    \/ hlml_init
    \/ hlml_shutdown
    \/ \E h \in EventSetHandles \ {NULLH} :
          \E d \in DeviceHandles \cap {NULLH, 1, Occupied(h), Occupied(h) + 1} :
              hlml_device_register_events(d, {HLML_EVENT_CRITICAL_ERR}, h)
    \/ \E a \in {NULLH} \cup (1..FullEventSets) : hlml_event_set_create(TRUE, a)
    \/ \E h \in EventSetHandles \ {NULLH} : hlml_event_set_free(h)
    \/ \E h \in EventSetHandles \ {NULLH} : hlml_event_set_wait(h, TRUE, 0)

NextFull ==
    \/ FullAddDevice
    \/ reset
    \/ FullAddEvent
    \/ reset_events
    \/ FullSetError
    \/ FullCalls

SpecFull == Init /\ [][NextFull]_vars


(* ---------------- claims about event sets and the event queue ---------------- *)
(* the devices held by the slots dev_events, and by the event set at h *)
RegisteredIn(dev_events) == {dev_events[i] : i \in 1..DEVICES_MAX} \ {NULLH}
Registered(h) == RegisteredIn(event_sets[h].dev_events)

SerialOf(d) == devices_info[d].serial

(* this step is hlml_event_set_wait on a live event set, with a place for the
   event record, in an initialized library, with no status forced on it *)
WaitStep ==
    /\ call'.op = "hlml_event_set_wait"
    /\ initialized
    /\ func_ret[FAKE_EVENT_SET_WAIT] = HLML_SUCCESS
    /\ Live(call'.args.set)
    /\ call'.args.data

(* this step is hlml_device_register_events on a live event set with no
   status forced on it *)
RegisterStep ==
    /\ call'.op = "hlml_device_register_events"
    /\ func_ret[FAKE_DEVICE_REGISTER_EVENTS] = HLML_SUCCESS
    /\ Live(call'.args.set)

(* C4: with no forced status, once add_critical_event has queued the serial
   of B as the only event, a wait on an event set where B and at least one
   other device are registered, all with different serials, returns success
   with B and HLML_EVENT_CRITICAL_ERR and empties the queue, wherever B sits
   among the slots; the wait on the same set that follows returns timeout. *)
C4_EventDelivery ==
    [][ /\ (/\ WaitStep
            /\ Injected = {}
            /\ call.op = "add_critical_event"
            /\ events_num = 1)
           => \A B \in Registered(call'.args.set) :
                (/\ SerialOf(B) = events[1]
                 /\ Registered(call'.args.set) # {B}
                 /\ \A A \in Registered(call'.args.set) \ {B} : SerialOf(A) # SerialOf(B))
                   => /\ call'.ret = HLML_SUCCESS
                      /\ call'.out = [device |-> B, event_type |-> {HLML_EVENT_CRITICAL_ERR}]
                      /\ events' = <<>>
        /\ (/\ WaitStep
            /\ Injected = {}
            /\ call.op = "hlml_event_set_wait"
            /\ call.ret = HLML_SUCCESS
            /\ call'.args.set = call.args.set
            /\ events_num = 0)
           => /\ call'.ret = HLML_ERROR_TIMEOUT
              /\ events' = <<>> ]_vars

(* the wait has delivered B, registered after a device with another serial *)
C4_Witness ==
    /\ call.op = "hlml_event_set_wait"
    /\ call.ret = HLML_SUCCESS
    /\ ub = "none"
    /\ events_num = 0
    /\ Live(call.args.set)
    /\ event_sets[call.args.set].dev_events[2] = call.out.device
    /\ event_sets[call.args.set].dev_events[1] # NULLH
    /\ SerialOf(event_sets[call.args.set].dev_events[1]) # SerialOf(call.out.device)

(* C5: a wait looks at the last queued event only. With the queue empty, or
   with the serial of its last event that of no device registered in the set,
   it returns timeout and changes nothing, whatever older events the queue
   holds; a wait that returns success removes the last event and changes
   nothing else. *)
C5_WaitMatchesTailOnly ==
    [][ WaitStep
          => /\ (\/ events_num = 0
                 \/ \A d \in Registered(call'.args.set) : SerialOf(d) # events[events_num])
                => /\ call'.ret = HLML_ERROR_TIMEOUT
                   /\ UNCHANGED fake_state
             /\ call'.ret = HLML_SUCCESS
                => /\ events_num > 0
                   /\ events' = SubSeq(events, 1, events_num - 1)
                   /\ UNCHANGED <<initialized, devices_num, devices_info, func_ret,
                                  event_sets, ub>> ]_vars

(* the wait has timed out although an older queued event is for a device
   registered in the set *)
C5_Witness ==
    /\ call.op = "hlml_event_set_wait"
    /\ call.ret = HLML_ERROR_TIMEOUT
    /\ initialized
    /\ Live(call.args.set)
    /\ events_num = 2
    /\ \E d \in Registered(call.args.set) : SerialOf(d) = events[1]
    /\ \A d \in Registered(call.args.set) : SerialOf(d) # events[2]

(* C8: registering a device that the event set already holds returns success
   and leaves the slots as they are; a registration that returns success
   leaves the device in the set; no device ever occupies two slots of a set. *)
C8_RegistrationIdempotent ==
    [][ RegisterStep
          => /\ (call'.args.device # NULLH /\ call'.args.device \in Registered(call'.args.set))
                => /\ call'.ret = HLML_SUCCESS
                   /\ event_sets' = event_sets
             /\ (call'.args.device # NULLH /\ call'.ret = HLML_SUCCESS)
                => call'.args.device \in RegisteredIn(event_sets'[call'.args.set].dev_events)
             /\ OccupiedSlots(event_sets'[call'.args.set].dev_events)
                  = Cardinality(RegisteredIn(event_sets'[call'.args.set].dev_events)) ]_vars

(* a registration has returned success for a device that sits before the last
   occupied slot, so the set held it before the call *)
C8_Witness ==
    /\ call.op = "hlml_device_register_events"
    /\ call.ret = HLML_SUCCESS
    /\ Live(call.args.set)
    /\ call.args.device # NULLH
    /\ event_sets[call.args.set].dev_events[1] = call.args.device
    /\ event_sets[call.args.set].dev_events[2] # NULLH

(* C10: in an initialized library with no forced status, register_events,
   wait and free called with a null handle, or with the handle of an event
   set already freed, return HLML_ERROR_INVALID_ARGUMENT without touching
   the storage behind the handle. *)
C10_NullOrFreedHandleRejected ==
    [][ (/\ call'.op \in {"hlml_device_register_events", "hlml_event_set_wait",
                          "hlml_event_set_free"}
         /\ initialized
         /\ Injected = {}
         /\ call'.op = "hlml_event_set_wait" => call'.args.data
         /\ \/ call'.args.set = NULLH
            \/ (call'.args.set \in HeapAddrs /\ event_sets[call'.args.set].state = "freed"))
            => /\ call'.ret = HLML_ERROR_INVALID_ARGUMENT
               /\ UNCHANGED fake_state ]_vars

(* C16: reset_events empties the event queue and leaves the registry, the
   device count, initialized, func_ret and every event set as they are; the
   wait that follows it, on any live event set, returns timeout. *)
C16_ResetEventsFrame ==
    [][ /\ call'.op = "reset_events"
           => /\ events_num' = 0
              /\ UNCHANGED <<initialized, devices_num, devices_info, func_ret,
                             event_sets, ub>>
        /\ (WaitStep /\ call.op = "reset_events")
           => /\ call'.ret = HLML_ERROR_TIMEOUT
              /\ UNCHANGED fake_state ]_vars

(* reset_events has run in an initialized library with a status forced and
   a device registered in a live event set, all of which it has left alone *)
C16_Witness ==
    /\ call.op = "reset_events"
    /\ events_num = 0
    /\ initialized
    /\ Injected # {}
    /\ \E h \in HeapAddrs : Live(h) /\ Registered(h) # {}

(* the timeouts compared, and what a wait can return and write *)
Timeouts == {0, 1, 1000}
WaitReturns ==
    {HLML_SUCCESS, HLML_ERROR_TIMEOUT, HLML_ERROR_UNINITIALIZED,
     HLML_ERROR_INVALID_ARGUMENT, HLML_ERROR_UNKNOWN, "SIGSEGV"}
WaitRecords ==
    {NoOut} \cup {[device |-> d, event_type |-> {HLML_EVENT_CRITICAL_ERR}] :
                     d \in 1..DEVICES_MAX}

(* from the current state, hlml_event_set_wait(set, data, timeoutms) can
   return ret, write out, and leave the queue q and the process in u, with
   everything else as it is *)
WaitCanEndIn(set, data, timeoutms, ret, out, q, u) ==
    ENABLED (/\ hlml_event_set_wait(set, data, timeoutms)
             /\ call'.ret = ret
             /\ call'.out = out
             /\ events' = q
             /\ ub' = u
             /\ UNCHANGED <<initialized, devices_num, devices_info, func_ret,
                            event_sets>>)

(* C17: a wait is one step that can always be taken, whatever the queue
   holds; and whatever a wait returns, writes and leaves behind, the same
   call with any other timeout, from the same state, can return, write and
   leave behind the same. *)
C17_TimeoutIndependence ==
    /\ [](ub = "none"
            => \A h \in EventSetHandles, p \in BOOLEAN, t \in Timeouts :
                  ENABLED hlml_event_set_wait(h, p, t))
    /\ [][ call'.op = "hlml_event_set_wait"
             => \E h \in EventSetHandles, p \in BOOLEAN, ret \in WaitReturns,
                   out \in WaitRecords, u \in {"none", "use_after_free"},
                   q \in {events, SubSeq(events, 1, events_num - 1)} :
                   /\ call'.args.set = h /\ call'.args.data = p
                   /\ call'.ret = ret /\ call'.out = out
                   /\ events' = q /\ ub' = u
                   /\ UNCHANGED <<initialized, devices_num, devices_info, func_ret,
                                  event_sets>>
                   /\ \A t \in Timeouts : WaitCanEndIn(h, p, t, ret, out, q, u) ]_vars

(* a wait with a timeout of 1000 ms has returned timeout at once, with an
   event in the queue that is not for a device of the set *)
C17_Witness ==
    /\ call.op = "hlml_event_set_wait"
    /\ call.args.timeoutms = 1000
    /\ call.ret = HLML_ERROR_TIMEOUT
    /\ ub = "none"
    /\ initialized
    /\ Live(call.args.set)
    /\ Registered(call.args.set) # {}
    /\ events_num > 0

(* a wait has just returned an event *)
WaitDelivers == call'.op = "hlml_event_set_wait" /\ call'.ret = HLML_SUCCESS

(* this step has taken every event off a queue that held some, other than
   by a wait returning the only one *)
QueueCleared == events # <<>> /\ events' = <<>> /\ ~WaitDelivers

(* the successful hlml_shutdown and hlml_init steps change nothing but
   main_struct.initialized, which they leave false and true *)
ShutdownInitFrame ==
    /\ (call'.op = "hlml_shutdown" /\ call'.ret = HLML_SUCCESS) =>
          /\ ~initialized'
          /\ UNCHANGED <<devices_num, devices_info, func_ret, events, event_sets, ub>>
    /\ (call'.op = "hlml_init" /\ call'.ret = HLML_SUCCESS) =>
          /\ initialized'
          /\ UNCHANGED <<devices_num, devices_info, func_ret, events, event_sets, ub>>

(* C23: a successful hlml_shutdown changes only the initialized flag, and so
   does the successful hlml_init after it, so the lookups and the waits find
   what they found before; reset clears the device count, the table, the
   queue and the slots of every event set, and no other step takes devices
   off the registry, clears the queue or empties a slot of a live set. *)
C23_OnlyResetClears ==
    /\ [][ShutdownInitFrame]_vars
    /\ [][ call'.op = "reset" =>
             /\ devices_num' = 0
             /\ func_ret' = [c \in call_identity_t |-> HLML_SUCCESS]
             /\ events' = <<>>
             /\ \A h \in HeapAddrs :
                    Live(h)' => event_sets'[h].dev_events = ZeroEventSet ]_vars
    /\ [][ ( \/ devices_num' < devices_num
             \/ QueueCleared
             \/ \E h \in HeapAddrs :
                   /\ Live(h) /\ Live(h)'
                   /\ \E i \in 1..DEVICES_MAX :
                         /\ event_sets[h].dev_events[i] # NULLH
                         /\ event_sets'[h].dev_events[i] = NULLH )
           => call'.op = "reset" ]_vars

(* C23, amended: a successful hlml_shutdown changes only the initialized
   flag, and so does the successful hlml_init after it; reset clears the
   device count, the table and the queue and leaves every event set as it
   is; only reset takes devices off the registry, only reset and reset_events
   clear the queue, and no step empties a slot of an event set that stays
   live. *)
C23_ShutdownKeepsAll ==
    /\ [][ShutdownInitFrame]_vars
    /\ [][ call'.op = "reset" =>
             /\ devices_num' = 0
             /\ func_ret' = [c \in call_identity_t |-> HLML_SUCCESS]
             /\ events' = <<>>
             /\ event_sets' = event_sets ]_vars
    /\ [][ /\ devices_num' < devices_num => call'.op = "reset"
           /\ QueueCleared => call'.op \in {"reset", "reset_events"}
           /\ \A h \in HeapAddrs :
                  (Live(h) /\ Live(h)') =>
                      \A i \in 1..DEVICES_MAX :
                          event_sets[h].dev_events[i] # NULLH =>
                              event_sets'[h].dev_events[i] # NULLH ]_vars

(* a shutdown has succeeded with two devices in the registry, a status
   forced on some entry point, an event queued and a device registered in a
   live event set *)
C23_Witness ==
    /\ call.op = "hlml_shutdown"
    /\ call.ret = HLML_SUCCESS
    /\ ~initialized
    /\ devices_num = 2
    /\ Injected # {}
    /\ events_num > 0
    /\ \E h \in HeapAddrs : Live(h) /\ Occupied(h) > 0


(* ---------------- claims checked under SpecFull ---------------- *)
(* C6: while every queued serial is that of a device registered in the set,
   a wait returns success with a device that has the serial queued last and
   removes that event; with the queue empty it returns timeout. So the waits
   after s1 .. sk were queued report sk, .., s1 in that order, and the wait
   after them times out. *)
C6_LastInFirstOut ==
    [][ (/\ WaitStep
         /\ \A k \in 1..events_num :
              \E d \in Registered(call'.args.set) : SerialOf(d) = events[k])
          => IF events_num > 0
               THEN /\ call'.ret = HLML_SUCCESS
                    /\ call'.out.device \in Registered(call'.args.set)
                    /\ SerialOf(call'.out.device) = events[events_num]
                    /\ call'.out.event_type = {HLML_EVENT_CRITICAL_ERR}
                    /\ events' = SubSeq(events, 1, events_num - 1)
               ELSE call'.ret = HLML_ERROR_TIMEOUT ]_vars

(* the first wait on a full queue of eight different serials, all registered,
   has delivered the eighth *)
C6_Witness ==
    /\ call.op = "hlml_event_set_wait"
    /\ call.ret = HLML_SUCCESS
    /\ ub = "none"
    /\ events_num = FAKE_EVENTS_MAX - 1
    /\ SerialOf(call.out.device) = "S8"
    /\ \A k \in 1..events_num :
          \E d \in Registered(call.args.set) : SerialOf(d) = events[k]

(* C7: the queue never holds more than FAKE_EVENTS_MAX events;
   add_critical_event on a full queue leaves it as it is, and on a shorter
   queue appends the serial. *)
C7_QueueBounded ==
    /\ [](events_num \in 0..FAKE_EVENTS_MAX)
    /\ [][ call'.op = "add_critical_event"
             => IF events_num = FAKE_EVENTS_MAX
                  THEN events' = events
                  ELSE events' = Append(events, call'.args.serial) ]_vars

(* a ninth event has been dropped *)
C7_Witness ==
    /\ call.op = "add_critical_event"
    /\ call.args.serial = "S9"
    /\ events_num = FAKE_EVENTS_MAX
    /\ events[FAKE_EVENTS_MAX] = "S8"

(* C9: a registration into a set whose DEVICES_MAX slots all hold other
   devices returns HLML_ERROR_INVALID_ARGUMENT and leaves the set as it is;
   any other registration into a live set, with no status forced, returns
   success. *)
C9_RegistrationCapacity ==
    [][ RegisterStep
          => IF \A i \in 1..DEVICES_MAX :
                  /\ event_sets[call'.args.set].dev_events[i] # NULLH
                  /\ event_sets[call'.args.set].dev_events[i] # call'.args.device
               THEN /\ call'.ret = HLML_ERROR_INVALID_ARGUMENT
                    /\ event_sets' = event_sets
               ELSE call'.ret = HLML_SUCCESS ]_vars

(* a registration into a full set has been refused *)
C9_Witness ==
    /\ call.op = "hlml_device_register_events"
    /\ call.ret = HLML_ERROR_INVALID_ARGUMENT
    /\ Live(call.args.set)
    /\ Occupied(call.args.set) = DEVICES_MAX
    /\ call.args.device \notin Registered(call.args.set)


(* ---------------- SpecLookup: the lookups and the serial ---------------- *)
(* up to LookupDevices devices, each with one of three addresses (the third
   longer than the pci_addr field) and any of the indexes 0, 1 and 4294967295
   (written -1); lookups by index and by address, and hlml_device_get_serial
   with buffers shorter than, as long as and longer than SERIAL_MAX, of
   4294967295 bytes (written -1), of length 0 and with no buffer. *)
LookupDevices == 2
LookupIndexes == {0, 1, -1}
LookupAddrs == {"0000:01:00.0", "0000:02:00.0", "00000000:03:00.0"}
LookupCallIds == {FAKE_DEVICE_GET_HANDLE_BY_INDEX, FAKE_DEVICE_GET_HANDLE_BY_PCI_BUS_ID,
                  FAKE_DEVICE_GET_SERIAL}

(* the serial the harness gives the device at an address *)
LookupSerial(a) ==
    CASE a = "0000:01:00.0" -> "S1" [] a = "0000:02:00.0" -> "S2" [] OTHER -> "S3"

LookupAddDevice ==
    /\ devices_num < LookupDevices
    /\ \E a \in LookupAddrs, i \in LookupIndexes :
          add_device(a, "1020", "1da3", LookupSerial(a), i)

LookupSetError ==
    \E c \in LookupCallIds, e \in {HLML_SUCCESS, HLML_ERROR_UNKNOWN} :
        /\ e # HLML_SUCCESS => Cardinality(Injected \cup {c}) <= MaxInjected
        /\ set_error(c, e)

LookupCalls ==
    \/ hlml_init
    \/ \E i \in LookupIndexes \cup {2}, p \in BOOLEAN : hlml_device_get_handle_by_index(i, p)
    \/ \E a \in LookupAddrs \cup {NULL, "00000000:03:00"}, p \in BOOLEAN :
          hlml_device_get_handle_by_pci_bus_id(a, p)
    \/ \E d \in DeviceHandles :
          \/ hlml_device_get_serial(d, FALSE, SERIAL_MAX)
          \/ \E l \in {0, 1, SERIAL_MAX - 1, SERIAL_MAX, SERIAL_MAX + 1, -1} :
                hlml_device_get_serial(d, TRUE, l)

NextLookup ==
    \/ LookupAddDevice
    \/ reset
    \/ LookupSetError
    \/ LookupCalls

SpecLookup == Init /\ [][NextLookup]_vars

(* ---------------- claims checked under SpecLookup ---------------- *)
(* u >= n for an unsigned u and an n in 0..2147483647 *)
UnsignedGe(u, n) == u < 0 \/ u >= n

(* this step is hlml_device_get_handle_by_index with a place for the handle,
   in an initialized library, with no status forced on it *)
IndexLookupStep ==
    /\ call'.op = "hlml_device_get_handle_by_index"
    /\ initialized
    /\ func_ret[FAKE_DEVICE_GET_HANDLE_BY_INDEX] = HLML_SUCCESS
    /\ call'.args.device

(* C12: the lookup of the index of any device added since the last
   reset returns success with that device, and the lookup of any index at or
   above the device count returns HLML_ERROR_INVALID_ARGUMENT. *)
C12_LookupByIndexAnyIndex ==
    [][ IndexLookupStep
          => /\ \A D \in 1..devices_num :
                   devices_info[D].index = call'.args.index
                     => (call'.ret = HLML_SUCCESS /\ call'.out.device = D)
             /\ UnsignedGe(call'.args.index, devices_num)
                   => call'.ret = HLML_ERROR_INVALID_ARGUMENT ]_vars

(* C13: in an initialized library, with no status forced and both arguments
   non-null, hlml_device_get_handle_by_pci_bus_id returns success with the
   first device, in the order added, whose stored address differs from the
   one asked for, and HLML_ERROR_NOT_FOUND exactly when there is no such
   device: none registered, or all with the address asked for. *)
C13_LookupByPciOnInequality ==
    [][ (/\ call'.op = "hlml_device_get_handle_by_pci_bus_id"
         /\ initialized
         /\ func_ret[FAKE_DEVICE_GET_HANDLE_BY_PCI_BUS_ID] = HLML_SUCCESS
         /\ call'.args.device
         /\ call'.args.pci_addr # NULL)
          => LET differ == {n \in 1..devices_num :
                               devices_info[n].pci_addr # call'.args.pci_addr}
             IN  /\ UNCHANGED fake_state
                 /\ IF differ = {}
                      THEN call'.ret = HLML_ERROR_NOT_FOUND
                      ELSE /\ call'.ret = HLML_SUCCESS
                           /\ call'.out.device \in differ
                           /\ \A n \in differ : call'.out.device <= n ]_vars

(* the lookup of the first device's address has returned the second device;
   the first was added with an address longer than the pci_addr field and
   is asked for by what the field holds *)
C13_Witness ==
    /\ call.op = "hlml_device_get_handle_by_pci_bus_id"
    /\ call.ret = HLML_SUCCESS
    /\ ub = "none"
    /\ call.out.device = 2
    /\ call.args.pci_addr = "00000000:03:00"
    /\ devices_info[1].pci_addr = call.args.pci_addr

(* C15: hlml_device_get_serial, given a buffer and a length that is not 0,
   returns the forced status and an empty string when one is forced;
   otherwise success and an empty string for a null device, whatever the
   length; for a device, HLML_ERROR_INSUFFICIENT_SIZE when the length is
   below SERIAL_MAX, and success with the device's serial when it is
   SERIAL_MAX or more. It changes nothing and does not look at initialized. *)
C15_SerialRetrieval ==
    [][ (/\ call'.op = "hlml_device_get_serial"
         /\ call'.args.serial
         /\ call'.args.length # 0)
          => /\ UNCHANGED fake_state
             /\ IF func_ret[FAKE_DEVICE_GET_SERIAL] # HLML_SUCCESS
                  THEN /\ call'.ret = func_ret[FAKE_DEVICE_GET_SERIAL]
                       /\ call'.out = [serial |-> ""]
                  ELSE IF call'.args.device = NULLH
                    THEN /\ call'.ret = HLML_SUCCESS
                         /\ call'.out = [serial |-> ""]
                  ELSE IF UnsignedGe(call'.args.length, SERIAL_MAX)
                    THEN /\ call'.ret = HLML_SUCCESS
                         /\ call'.out = [serial |-> devices_info[call'.args.device].serial]
                    ELSE call'.ret = HLML_ERROR_INSUFFICIENT_SIZE ]_vars

(* ---------------- the slots of an event set, under SpecFull ---------------- *)
(* no empty slot precedes an occupied one *)
SlotsContiguous(dev_events) ==
    \A i \in 1..(DEVICES_MAX - 1) : dev_events[i] = NULLH => dev_events[i + 1] = NULLH

(* no device occupies two slots *)
SlotsDistinct(dev_events) ==
    \A i, j \in 1..DEVICES_MAX :
        (i < j /\ dev_events[i] # NULLH) => dev_events[i] # dev_events[j]

(* the slots, empty ones or not, whose device has the serial of the last
   queued event *)
SlotsOfTail(dev_events) ==
    {i \in 1..DEVICES_MAX :
        /\ dev_events[i] # NULLH
        /\ events_num > 0
        /\ SerialOf(dev_events[i]) = events[events_num]}

(* C21: short of undefined behaviour, the occupied slots of every live event
   set are a prefix of its DEVICES_MAX slots and hold different devices. A
   set becomes live with all slots empty; a registration of a device not yet
   in the set puts it into the slot after the occupied ones, and nothing else
   changes the slots of a set that stays live: the slots are in registration
   order. A wait returns a device whenever any slot holds one with the serial
   of the last queued event, and then the first such slot's. *)
C21_SlotInvariant ==
    /\ [](ub = "none" =>
            \A h \in HeapAddrs :
                Live(h) => /\ SlotsContiguous(event_sets[h].dev_events)
                           /\ SlotsDistinct(event_sets[h].dev_events))
    /\ [][ \A h \in HeapAddrs :
             /\ (~Live(h) /\ Live(h)') => event_sets'[h].dev_events = ZeroEventSet
             /\ (Live(h) /\ Live(h)') =>
                  IF /\ RegisterStep
                     /\ call'.args.set = h
                     /\ call'.args.device # NULLH
                     /\ call'.args.device \notin Registered(h)
                     /\ Occupied(h) < DEVICES_MAX
                    THEN event_sets'[h].dev_events =
                           [event_sets[h].dev_events EXCEPT
                               ![Occupied(h) + 1] = call'.args.device]
                    ELSE event_sets'[h].dev_events = event_sets[h].dev_events ]_vars
    /\ [][ WaitStep =>
             LET slots == event_sets[call'.args.set].dev_events
                 found == SlotsOfTail(slots)
             IN  IF found = {}
                   THEN call'.ret = HLML_ERROR_TIMEOUT
                   ELSE /\ call'.ret = HLML_SUCCESS
                        /\ call'.out.device =
                             slots[CHOOSE i \in found : \A j \in found : i <= j] ]_vars

(* a wait on an event set with all slots occupied has returned the device of
   the last slot, the one registered last *)
C21_Witness ==
    /\ call.op = "hlml_event_set_wait"
    /\ call.ret = HLML_SUCCESS
    /\ ub = "none"
    /\ Live(call.args.set)
    /\ Occupied(call.args.set) = DEVICES_MAX
    /\ call.out.device = event_sets[call.args.set].dev_events[DEVICES_MAX]
    /\ call.out.device # event_sets[call.args.set].dev_events[1]

(* ---------------- the registry at capacity, under SpecFull ---------------- *)
(* C14: the registry never holds more than DEVICES_MAX devices, and
   add_device never writes a device record outside
   main_struct.devices_info[0 .. DEVICES_MAX-1]. *)
C14_RegistryBounded ==
    /\ devices_num \in 0..DEVICES_MAX
    /\ ub # "out_of_bounds_write"


(* ---------------- SpecInit: initialization under forced statuses ---------- *)
(* statuses are forced on hlml_init, hlml_init_with_flags and hlml_shutdown,
   on any number of them at a time *)
InitCallIds == {FAKE_INIT, FAKE_INIT_WITH_FLAGS, FAKE_SHUTDOWN}

InitSetError ==
    \E c \in InitCallIds, e \in InjectedStatuses : set_error(c, e)

NextInit ==
    \/ InitSetError
    \/ reset
    \/ hlml_init
    \/ hlml_init_with_flags(0)
    \/ hlml_shutdown

SpecInit == Init /\ [][NextInit]_vars

(* C19: hlml_init returns the status forced on FAKE_INIT when there is one;
   otherwise the status forced on FAKE_INIT_WITH_FLAGS when there is one, as
   hlml_init_with_flags does; in both cases initialized and all the rest keep
   their values. With neither forced it returns success and sets initialized,
   which changes nothing in a library already initialized. *)
C19_InitDelegates ==
    [][ call'.op = "hlml_init"
          => /\ IF func_ret[FAKE_INIT] # HLML_SUCCESS
                  THEN /\ call'.ret = func_ret[FAKE_INIT]
                       /\ UNCHANGED fake_state
                  ELSE IF func_ret[FAKE_INIT_WITH_FLAGS] # HLML_SUCCESS
                    THEN /\ call'.ret = func_ret[FAKE_INIT_WITH_FLAGS]
                         /\ UNCHANGED fake_state
                  ELSE /\ call'.ret = HLML_SUCCESS
                       /\ initialized'
                       /\ UNCHANGED <<devices_num, devices_info, func_ret, events,
                                      event_sets, ub>>
             /\ (initialized /\ call'.ret = HLML_SUCCESS) => UNCHANGED fake_state ]_vars

(* hlml_init has returned the status forced on FAKE_INIT, another one being
   forced on FAKE_INIT_WITH_FLAGS, in a library that stays initialized *)
C19_Witness ==
    /\ call.op = "hlml_init"
    /\ call.ret = HLML_ERROR_TIMEOUT
    /\ func_ret[FAKE_INIT] = HLML_ERROR_TIMEOUT
    /\ func_ret[FAKE_INIT_WITH_FLAGS] = HLML_ERROR_UNKNOWN
    /\ initialized


(* ---------------- SpecDelivery: events queued and waited for ---------------- *)
(* a test adds up to DeliveryDevices devices "S1", "S2", initializes the
   library, creates an event set, registers devices in it, queues up to
   DeliveryEvents events at a time and waits on the event set. There is no
   reset, reset_events, shutdown or free, and the test keeps calling wait:
   a wait that would change something is not put off for ever. *)
DeliveryDevices == 2
DeliveryEvents == 3
DeliveryEventSets == 1

DeliveryAddDevice ==
    /\ devices_num < DeliveryDevices
    /\ add_device("0000:01:00.0", "1020", "1da3", FullSerials[devices_num + 1], devices_num)

DeliveryAddEvent ==
    /\ events_num < DeliveryEvents
    /\ \E d \in 1..DeliveryDevices : add_critical_event(FullSerials[d])

DeliveryRegister ==
    \E d \in DeviceHandles \ {NULLH}, h \in HeapAddrs :
        /\ Live(h)
        /\ hlml_device_register_events(d, {HLML_EVENT_CRITICAL_ERR}, h)

DeliveryCreate ==
    \E a \in 1..DeliveryEventSets : hlml_event_set_create(TRUE, a)

DeliveryWait(h) ==
    /\ Live(h)
    /\ hlml_event_set_wait(h, TRUE, 0)

NextDelivery ==
    \/ DeliveryAddDevice
    \/ hlml_init
    \/ DeliveryCreate
    \/ DeliveryRegister
    \/ DeliveryAddEvent
    \/ \E h \in HeapAddrs : DeliveryWait(h)

SpecDelivery ==
    /\ Init
    /\ [][NextDelivery]_vars
    /\ \A h \in HeapAddrs : WF_vars(DeliveryWait(h))

(* the k-th queued event has the serial of a device registered in the event
   set at h *)
QueuedFor(h, k) ==
    /\ k <= events_num
    /\ \E d \in Registered(h) : SerialOf(d) = events[k]

(* the same, in an initialized library, the event set being live *)
Pending(h, k) == initialized /\ Live(h) /\ QueuedFor(h, k)

(* C20: every queued event with the serial of a device registered in an event
   set is, with waits on that set going on and no reset or reset_events,
   returned by a wait in the end, whatever was queued before or after it. An
   event leaves the queue only by being returned, so the k-th event has been
   returned once the queue is shorter than k. *)
C20_EveryQueuedEventDelivered ==
    \A h \in HeapAddrs, k \in 1..DeliveryEvents :
        Pending(h, k) ~> (events_num < k)

(* every event queued after the k-th has the serial of a device registered in
   the event set at h *)
NothingBlocks(h, k) == \A j \in (k + 1)..events_num : QueuedFor(h, j)

(* C20, amended: a wait that returns an event returns the newest one, for a
   device with its serial registered in the event set waited on, and takes
   that one event off the queue; the queue changes in no other way than by
   this or by add_critical_event queuing one more, so no event is returned
   twice. A queued event with the serial of a device registered in E is
   returned in the end provided that every event queued after it also has the
   serial of a device registered in E and that events stop being queued from
   some point on. *)
C20_DeliveredOnceWhenNothingBlocks ==
    /\ [][ /\ WaitDelivers =>
                /\ events_num > 0
                /\ events' = SubSeq(events, 1, events_num - 1)
                /\ call'.out.device \in Registered(call'.args.set)
                /\ SerialOf(call'.out.device) = events[events_num]
           /\ (events' # events /\ ~WaitDelivers) =>
                /\ call'.op = "add_critical_event"
                /\ events' = Append(events, call'.args.serial) ]_vars
    /\ \A h \in HeapAddrs, k \in 1..DeliveryEvents :
           ( /\ <>[][call'.op # "add_critical_event"]_vars
             /\ []NothingBlocks(h, k) )
           => (Pending(h, k) ~> (events_num < k))

(* the older of two queued events has been returned: both devices are
   registered in the event set, the wait has returned the device of "S1" and
   has left the queue empty *)
C20_Witness ==
    /\ call.op = "hlml_event_set_wait"
    /\ call.ret = HLML_SUCCESS
    /\ ub = "none"
    /\ call.out.device = 1
    /\ Registered(call.args.set) = {1, 2}
    /\ events = <<>>


(* ---------------- SpecShared: two event sets on the one queue ---------------- *)
(* a test adds up to SharedDevices devices with the serials "S1", "S2" (two
   devices may have the same), initializes the library, creates up to
   SharedEventSets event sets, registers devices in them, queues up to
   SharedEvents events at a time, empties the queue with reset_events and
   waits on the event sets, one call after the other: the fake has no
   threads of its own and leaves it to its callers to make their calls one
   at a time. *)
SharedDevices == 2
SharedEvents == 2
SharedEventSets == 2

SharedAddDevice ==
    /\ devices_num < SharedDevices
    /\ \E sn \in EvSerials : add_device("0000:01:00.0", "1020", "1da3", sn, devices_num)

SharedAddEvent ==
    /\ events_num < SharedEvents
    /\ \E sn \in EvSerials : add_critical_event(sn)

SharedCreate ==
    \E a \in 1..SharedEventSets : hlml_event_set_create(TRUE, a)

SharedRegister ==
    \E d \in DeviceHandles \ {NULLH}, h \in HeapAddrs :
        /\ Live(h)
        /\ hlml_device_register_events(d, {HLML_EVENT_CRITICAL_ERR}, h)

SharedWait ==
    \E h \in HeapAddrs :
        /\ Live(h)
        /\ hlml_event_set_wait(h, TRUE, 0)

NextShared ==
    \/ SharedAddDevice
    \/ hlml_init
    \/ SharedCreate
    \/ SharedRegister
    \/ SharedAddEvent
    \/ reset_events
    \/ SharedWait

SpecShared == Init /\ [][NextShared]_vars

(* device d is registered in two different live event sets *)
RegisteredInTwo(d) ==
    \E h1, h2 \in HeapAddrs :
        /\ h1 # h2
        /\ Live(h1) /\ Live(h2)
        /\ d \in Registered(h1) \cap Registered(h2)

(* C22: all event sets wait on the one queue. With one event queued, for a
   device registered in two event sets, a wait on either of them returns
   success with a device of that serial and empties the queue; on an empty
   queue every wait, on whichever event set, returns timeout and leaves the
   queue empty, so of the waits that follow the event exactly one succeeds
   until another event is queued. A successful wait takes exactly one event
   off the queue and only an accepted add_critical_event puts one on, one at
   a time, so there are never more successful waits than accepted events. *)
C22_SharedQueueDeliversOnce ==
    /\ [][ WaitStep =>
             /\ (/\ events_num = 1
                 /\ \E d \in Registered(call'.args.set) :
                       RegisteredInTwo(d) /\ SerialOf(d) = events[1])
                  => /\ call'.ret = HLML_SUCCESS
                     /\ SerialOf(call'.out.device) = events[1]
                     /\ events' = <<>>
             /\ events = <<>> => (call'.ret = HLML_ERROR_TIMEOUT /\ events' = <<>>) ]_vars
    /\ [][ /\ WaitDelivers => (events_num > 0 /\ events_num' = events_num - 1)
           /\ events_num' > events_num =>
                /\ call'.op = "add_critical_event"
                /\ ~call'.out.error_printed
                /\ events_num' = events_num + 1 ]_vars

(* the one queued event, for a device registered in both event sets, has
   been returned by the wait on the second event set, which has left the
   queue empty for the first *)
C22_Witness ==
    /\ call.op = "hlml_event_set_wait"
    /\ call.ret = HLML_SUCCESS
    /\ ub = "none"
    /\ call.args.set = 2
    /\ call.out.device = 1
    /\ RegisteredInTwo(1)
    /\ events = <<>>

=============================================================================
